---- MODULE Spec2Model ----
(***************************************************************************)
(* rotate4logrus: a logrus hook that appends records to a log file and     *)
(* rotates it (path -> path.0 -> path.1 ...), with a Pause() control that  *)
(* suspends rotation.  The model follows src/rotate4logrus.go, second      *)
(* (v2) listing, lines 224-481.                                            *)
(*                                                                         *)
(* Every blocking point and every separate read of the context, of the     *)
(* lease map and of the hook's fields is a step of its own, so that the    *)
(* interleavings of Fire, Pause, the resume closures, the arbiter          *)
(* goroutine and the cancellation of the context are those of the code.    *)
(***************************************************************************)
EXTENDS Integers, Sequences, FiniteSets, TLC

\* ---------------------------------------------------------------- bounds
MaxProcs  == 2    \* calling goroutines
MaxFires  == 3    \* Fire calls in a run
MaxPauses == 1    \* Pause calls in a run of Spec
MaxNested == 2    \* Pause calls in a run of SpecNested
NestedFires == 1  \* Fire calls in a run of SpecNested
MaxLen    == 2    \* payload lengths are 1..MaxLen
MaxRotate == 2    \* cfg.Rotate is drawn from 0..MaxRotate
MaxSize   == 3    \* cfg.Size is drawn from 0..MaxSize
ConcFires == 3    \* Fire calls in a run of SpecConc
SparseRotate == 3 \* cfg.Rotate is drawn from 1..SparseRotate in SpecSparse
SparseFires  == 2 \* Fire calls in a run of SpecSparse
FaultFires   == 3 \* Fire calls in a run of SpecFault
E2ESize   == 7    \* cfg.Size is drawn from 2..E2ESize in SpecE2E

\* TestHook_Rotate: Rotate: 5
E2ERotate == 5

Procs       == 1 .. MaxProcs
Dispatchers == {1}                  \* the single dispatch path of Spec
LeaseIds    == 1 .. (IF MaxPauses > MaxNested THEN MaxPauses ELSE MaxNested)
                                    \* the n-th Pause call yields closure n
Lens        == 1 .. MaxLen
Live        == -1                   \* index of the bare path in rotate()'s loop
MaxOf(a, b) == IF a > b THEN a ELSE b
MaxGen      == MaxOf(MaxOf(MaxRotate, SparseRotate), E2ERotate)
Paths       == Live .. (MaxGen - 1)
Gens        == 0 .. (MaxGen - 1)

\* Address of a heap-allocated zero-size value.  Go leaves open whether two
\* distinct zero-size variables have the same address; either the allocation
\* of call n is at an address of its own (n) or at the shared one.
ZeroBase == 0
NoTok    == -1                      \* the closure func() {} of Pause() after Done

VARIABLES
  cfg,        \* HookConfig: [Rotate, Size, Custom]
  ctxDone,    \* the context's Done channel is closed
  exists,     \* file system: does path k exist
  content,    \* file system: the payload lengths appended to path k, in order
  fileOpen,   \* h.file is an open handle (FALSE: it has been closed)
  size,       \* h.size
  mtx,        \* h.m: the goroutine holding it, 0 when free
  locks,      \* the arbiter's map locks (its key set)
  arbPc,      \* the arbiter goroutine: "select", "insert", "answer", "exited"
  arbReq,     \* the caller whose request the arbiter is handling
  leaseSt,    \* closure n: "unused", "inflight", "held", "released"
  leaseTok,   \* closure n: the key it deletes
  leaseCalls, \* closure n: how many times it has been invoked
  pc,         \* each caller's position
  fire,       \* each caller's locals inside Fire
  cur,        \* each caller's closure inside Pause / a resume closure
  lastErr,    \* what each caller's last Fire returned
  nfires, npauses,
  fatal,      \* the runtime aborted the process (concurrent map writes)
  fs0,        \* history: the files at construction
  written,    \* history: payloads of the Fires that returned nil, in order
  early,      \* history: closures returned before the first Fire started
  nrot        \* history: rotations that passed Close

vars == << cfg, ctxDone, exists, content, fileOpen, size, mtx, locks, arbPc,
           arbReq, leaseSt, leaseTok, leaseCalls, pc, fire, cur, lastErr,
           nfires, npauses, fatal, fs0, written, early, nrot >>

fsVars    == << exists, content >>
hookVars  == << fileOpen, size, mtx >>
arbVars   == << locks, arbPc, arbReq >>
leaseVars == << leaseSt, leaseTok, leaseCalls, cur, npauses, early >>
fireVars  == << fire, lastErr, nfires >>
histVars  == << fs0, written, nrot >>

\* ---------------------------------------------------------------- helpers
RECURSIVE SumSeq(_)
SumSeq(s) == IF s = << >> THEN 0 ELSE Head(s) + SumSeq(Tail(s))

\* stat.Size() of a path
FileLen(k) == SumSeq(content[k])

\* the file system as one value
Files == [exists |-> exists, content |-> content]

\* open(): h.size = uint64(stat.Size())
OpenSize(f) == SumSeq(f.content[Live])

\* a directory without files
NoFiles == [exists |-> [k \in Paths |-> FALSE], content |-> [k \in Paths |-> << >>]]

\* Fire's locals; pre is history: the files when rotate() closed the handle
FireZero == [len |-> 0, paused |-> FALSE, rot |-> FALSE, k |-> 0,
             S0 |-> 0, rotated |-> FALSE, quiet |-> FALSE,
             n |-> 0, h |-> 0, sz |-> 0, pre |-> NoFiles]

\* The identity of the handle h.file points to: open() assigns a new one,
\* Close() leaves the pointer on the handle it closed.
HandleId == IF fileOpen THEN nrot ELSE nrot - 1

\* No lease exists in any form: none held, none being granted, and every
\* closure that was invoked has run to its end.
Quiet == /\ \A n \in LeaseIds : leaseSt[n] \in {"unused", "released"}
         /\ \A p \in Procs : pc[p] \notin {"p_send", "p_recv", "deleting"}

\* Leases outstanding: Pause() has returned the closure, it was not invoked.
Outstanding == { n \in LeaseIds : leaseSt[n] = "held" /\ leaseTok[n] # NoTok }

\* ---------------------------------------------------------------- Init
\* The state New() returns in: the live file exists and is open, h.size is
\* its length, the arbiter waits in its select.
TypeCfg == [Rotate : 0 .. MaxRotate, Size : 0 .. MaxSize, Custom : {FALSE}]
             \cup [Rotate : 0 .. MaxRotate, Size : {0}, Custom : {TRUE}]

InitContent(k) == IF k = Live THEN << 1 >> ELSE << MaxLen + 1 + k >>

InitFiles(cfgs, genSets) ==
  /\ cfg \in cfgs
  /\ ctxDone = FALSE
  /\ \E preLive \in BOOLEAN : \E gens \in genSets :
       /\ exists = [k \in Paths |-> k = Live \/ k \in gens]
       /\ content = [k \in Paths |->
                       IF (k = Live /\ preLive) \/ k \in gens
                       THEN InitContent(k) ELSE << >>]
  /\ fileOpen = TRUE
  /\ size = OpenSize(Files)
  /\ mtx = 0
  /\ locks = {}
  /\ arbPc = "select"
  /\ arbReq = 0
  /\ leaseSt = [n \in LeaseIds |-> "unused"]
  /\ leaseTok = [n \in LeaseIds |-> NoTok]
  /\ leaseCalls = [n \in LeaseIds |-> 0]
  /\ pc = [p \in Procs |-> "idle"]
  /\ fire = [p \in Procs |-> FireZero]
  /\ cur = [p \in Procs |-> 0]
  /\ lastErr = [p \in Procs |-> "none"]
  /\ nfires = 0
  /\ npauses = 0
  /\ fatal = FALSE
  /\ fs0 = [exists |-> exists, content |-> content]
  /\ written = << >>
  /\ early = {}
  /\ nrot = 0

\* Spec starts in a directory that holds no generation file.
Init == InitFiles(TypeCfg, {{}})


\* ---------------------------------------------------------------- arbiter
\* lock := &struct{}{}: the addresses the allocation of closure n may have.
NewLock(n) == {ZeroBase, n}

\* len(locks) > 0
ArbiterPaused(lk) == lk # {}

\* A closure that forgets its delete.
DeleteNothing(lk, tok) == lk

\* delete(locks, lock)
DeleteLock(lk, tok) == lk \ {tok}

\* case <-context.Done(): return
ArbExit ==
  /\ ~fatal /\ arbPc = "select" /\ ctxDone
  /\ arbPc' = "exited"
  /\ UNCHANGED << cfg, ctxDone, fsVars, hookVars, locks, arbReq, leaseVars,
                  pc, fireVars, fatal, histVars >>

\* case r := <-hook.pauses, met by the caller's send h.pauses <- r
ArbRecvPause(p) ==
  /\ ~fatal /\ arbPc = "select" /\ pc[p] = "p_send"
  /\ arbPc' = "insert" /\ arbReq' = p
  /\ pc' = [pc EXCEPT ![p] = "p_recv"]
  /\ UNCHANGED << cfg, ctxDone, fsVars, hookVars, locks, leaseVars,
                  fireVars, fatal, histVars >>

\* locks[lock] = struct{}{}; r.response <- func() {...}, met by the caller's
\* receive, with which Pause() returns the closure.
ArbInsert ==
  /\ ~fatal /\ arbPc = "insert"
  /\ LET p == arbReq
         n == cur[p]
     IN \E tok \in NewLock(n) :
          /\ locks' = locks \cup {tok}
          /\ leaseTok' = [leaseTok EXCEPT ![n] = tok]
          /\ leaseSt' = [leaseSt EXCEPT ![n] = "held"]
          /\ early' = IF nfires = 0 THEN early \cup {n} ELSE early
          /\ pc' = [pc EXCEPT ![p] = "idle"]
          /\ cur' = [cur EXCEPT ![p] = 0]
  /\ arbPc' = "select" /\ arbReq' = 0
  /\ UNCHANGED << cfg, ctxDone, fsVars, hookVars, leaseCalls, npauses,
                  fireVars, fatal, histVars >>

\* case q := <-hook.queries, met by the caller's send h.queries <- q
ArbRecvQuery(p) ==
  /\ ~fatal /\ arbPc = "select" /\ pc[p] = "q_send"
  /\ arbPc' = "answer" /\ arbReq' = p
  /\ pc' = [pc EXCEPT ![p] = "q_recv"]
  /\ UNCHANGED << cfg, ctxDone, fsVars, hookVars, locks, leaseVars,
                  fireVars, fatal, histVars >>

\* q.response <- len(locks) > 0, met by the caller's receive, with which
\* paused() returns.
ArbAnswer ==
  /\ ~fatal /\ arbPc = "answer"
  /\ LET p == arbReq
     IN /\ fire' = [fire EXCEPT ![p].paused = ArbiterPaused(locks),
                                ![p].quiet = Quiet]
        /\ pc' = [pc EXCEPT ![p] = "decide"]
  /\ arbPc' = "select" /\ arbReq' = 0
  /\ UNCHANGED << cfg, ctxDone, fsVars, hookVars, locks, leaseVars,
                  lastErr, nfires, fatal, histVars >>

\* ---------------------------------------------------------------- Pause
\* Pause(): the check of h.ctx.Done(), then the request is built.
PauseCall(p) ==
  /\ ~fatal /\ pc[p] = "idle"
  /\ npauses' = npauses + 1
  /\ LET n == npauses + 1
     IN IF ctxDone
        THEN \* return func() {}
             /\ leaseSt' = [leaseSt EXCEPT ![n] = "held"]
             /\ UNCHANGED << pc, cur >>
        ELSE /\ leaseSt' = [leaseSt EXCEPT ![n] = "inflight"]
             /\ pc' = [pc EXCEPT ![p] = "p_send"]
             /\ cur' = [cur EXCEPT ![p] = n]
  /\ UNCHANGED << cfg, ctxDone, fsVars, hookVars, arbVars, leaseTok,
                  leaseCalls, early, fireVars, fatal, histVars >>

\* A caller invokes closure n (any caller may hold it; another invocation
\* runs the same body again).
ResumeCall(p, n) ==
  /\ ~fatal /\ pc[p] = "idle"
  /\ leaseSt[n] \in {"held", "released"}
  /\ leaseCalls' = [leaseCalls EXCEPT ![n] = @ + 1]
  /\ leaseSt' = [leaseSt EXCEPT ![n] = "released"]
  /\ IF leaseTok[n] = NoTok
     THEN UNCHANGED << pc, cur >>
     ELSE /\ pc' = [pc EXCEPT ![p] = "deleting"]
          /\ cur' = [cur EXCEPT ![p] = n]
  /\ UNCHANGED << cfg, ctxDone, fsVars, hookVars, arbVars, leaseTok,
                  npauses, early, fireVars, fatal, histVars >>

\* The closure's body, delete(locks, lock), run by the invoking goroutine.
ResumeDelete(p) ==
  /\ ~fatal /\ pc[p] = "deleting"
  /\ locks' = DeleteLock(locks, leaseTok[cur[p]])
  /\ pc' = [pc EXCEPT ![p] = "idle"]
  /\ cur' = [cur EXCEPT ![p] = 0]
  /\ UNCHANGED << cfg, ctxDone, fsVars, hookVars, arbPc, arbReq, leaseSt,
                  leaseTok, leaseCalls, npauses, early, fireVars, fatal, histVars >>

\* The closure's delete and the arbiter's insert are unsynchronised writes of
\* one map: besides either order, the runtime may detect them and abort the
\* process ("fatal error: concurrent map writes").
MapRaceFatal ==
  /\ ~fatal /\ arbPc = "insert"
  /\ \E p \in Procs : pc[p] = "deleting"
  /\ fatal' = TRUE
  /\ UNCHANGED << cfg, ctxDone, fsVars, hookVars, arbVars, leaseVars, pc,
                  fireVars, histVars >>

\* The caller's context is cancelled.
Cancel ==
  /\ ~fatal /\ ~ctxDone
  /\ ctxDone' = TRUE
  /\ UNCHANGED << cfg, fsVars, hookVars, arbVars, leaseVars, pc, fireVars,
                  fatal, histVars >>

\* ---------------------------------------------------------------- Fire
\* return from Fire with err
Ret(p, err) ==
  /\ pc' = [pc EXCEPT ![p] = "idle"]
  /\ lastErr' = [lastErr EXCEPT ![p] = err]
  /\ fire' = [fire EXCEPT ![p] = FireZero]

\* Fire(entry): the check of h.ctx.Done() and entry.Bytes()
FireCall(p, L, bytesOk) ==
  /\ ~fatal /\ pc[p] = "idle"
  /\ nfires' = nfires + 1
  /\ IF ctxDone THEN Ret(p, "ctxdone")
     ELSE IF ~bytesOk THEN Ret(p, "bytes")
     ELSE /\ pc' = [pc EXCEPT ![p] = "paused"]
          /\ lastErr' = [lastErr EXCEPT ![p] = "none"]
          /\ fire' = [fire EXCEPT ![p] = [FireZero EXCEPT !.len = L]]
  /\ UNCHANGED << cfg, ctxDone, fsVars, hookVars, arbVars, leaseVars,
                  fatal, histVars >>

\* paused(): the check of h.ctx.Done(); return false, or build the query
PausedCheck(p) ==
  /\ ~fatal /\ pc[p] = "paused"
  /\ IF ctxDone
     THEN /\ fire' = [fire EXCEPT ![p].paused = FALSE, ![p].quiet = Quiet]
          /\ pc' = [pc EXCEPT ![p] = "decide"]
     ELSE /\ pc' = [pc EXCEPT ![p] = "q_send"]
          /\ UNCHANGED fire
  /\ UNCHANGED << cfg, ctxDone, fsVars, hookVars, arbVars, leaseVars,
                  lastErr, nfires, fatal, histVars >>

\* The comparison made strict.
SizePolicyStrict(S, L, T) == S + L > T

\* hook.size+uint64(lenBytes) >= cfg.Size (uint64; the sums of the model stay
\* far below 2^64, where the addition would wrap)
SizePolicy(S, L, T) == S + L >= T

\* needRotate without its paused() branch.
NeedRotateUnpaused(isPaused, verdict) == verdict

\* Both needRotate closures: if paused { return false, nil }
NeedRotate(isPaused, verdict) == IF isPaused THEN FALSE ELSE verdict

\* What cfg.NeedRotate(file, lenBytes) may do: return either value, or panic.
CustomOutcomes == {"true", "false", "panic"}

\* The rest of h.needRotate, and Fire's branch on its result.
Decide(p) ==
  /\ ~fatal /\ pc[p] = "decide"
  /\ \E out \in (IF cfg.Custom /\ ~fire[p].paused
                 THEN CustomOutcomes ELSE {"none"}) :
       IF out = "panic"
       THEN \* recover(): result = false, err = "... panicked"; Fire returns err
            Ret(p, "predicate")
       ELSE LET verdict == IF cfg.Custom THEN out = "true"
                           ELSE SizePolicy(size, fire[p].len, cfg.Size)
                rot == NeedRotate(fire[p].paused, verdict)
            IN /\ fire' = [fire EXCEPT ![p].rot = rot, ![p].S0 = size,
                                       ![p].h = HandleId]
               /\ pc' = [pc EXCEPT ![p] = IF rot THEN "rotate" ELSE "write"]
               /\ UNCHANGED lastErr
  /\ UNCHANGED << cfg, ctxDone, fsVars, hookVars, arbVars, leaseVars,
                  nfires, fatal, histVars >>

\* ---------------------------------------------------------------- rotate
\* A remove that leaves the file in place.
RemoveFileKeep(f, k) == f

\* os.Remove(filePath), its error ignored
RemoveFile(f, k) ==
  [exists |-> [f.exists EXCEPT ![k] = FALSE],
   content |-> [f.content EXCEPT ![k] = << >>]]

\* A rename that leaves its source in place.
RenameFileCopy(f, k, n) ==
  [exists |-> [f.exists EXCEPT ![n] = TRUE],
   content |-> [f.content EXCEPT ![n] = f.content[k]]]

\* os.Rename(filePath, newFilePath): replaces the target if it exists
RenameFile(f, k, n) ==
  [exists |-> [f.exists EXCEPT ![k] = FALSE, ![n] = TRUE],
   content |-> [f.content EXCEPT ![k] = << >>, ![n] = f.content[k]]]

\* The loop with its oldest-generation test off by one (k == Rotate).
ShiftFilesLate(f, k, R) ==
  IF k = R THEN RemoveFile(f, k)
  ELSE IF ~f.exists[k] THEN f
  ELSE RenameFile(f, k, k + 1)

\* One iteration of rotate()'s loop, every call succeeding.
ShiftFiles(f, k, R) ==
  IF k + 1 = R THEN RemoveFile(f, k)
  ELSE IF ~f.exists[k] THEN f
  ELSE RenameFile(f, k, k + 1)

\* os.OpenFile(path, O_CREATE|O_APPEND|O_WRONLY, mode): creates the file if
\* it is absent, keeps its content if it is there
OpenOrCreate(f) ==
  [exists |-> [f.exists EXCEPT ![Live] = TRUE], content |-> f.content]

\* rotate(): the check of h.ctx.Done()
RotateCheck(p) ==
  /\ ~fatal /\ pc[p] = "rotate"
  /\ IF ctxDone THEN Ret(p, "rotate_ctxdone")
     ELSE /\ pc' = [pc EXCEPT ![p] = "lock"]
          /\ UNCHANGED << lastErr, fire >>
  /\ UNCHANGED << cfg, ctxDone, fsVars, hookVars, arbVars, leaseVars,
                  nfires, fatal, histVars >>

\* A mutex that never blocks.
MutexNever(m) == TRUE

\* sync.Mutex: Lock() returns when no goroutine holds it
MutexFree(m) == m = 0

\* h.m.Lock()
RotateLock(p) ==
  /\ ~fatal /\ pc[p] = "lock" /\ MutexFree(mtx)
  /\ mtx' = p
  /\ pc' = [pc EXCEPT ![p] = "close"]
  /\ UNCHANGED << cfg, ctxDone, fsVars, fileOpen, size, arbVars, leaseVars,
                  fireVars, fatal, histVars >>

\* h.file.Close(): an error when the handle is closed already
RotateClose(p) ==
  /\ ~fatal /\ pc[p] = "close"
  /\ IF ~fileOpen
     THEN /\ Ret(p, "rotate_closed")
          /\ mtx' = 0
          /\ UNCHANGED << fileOpen, nrot >>
     ELSE /\ fileOpen' = FALSE
          /\ fire' = [fire EXCEPT ![p].k = cfg.Rotate - 1, ![p].pre = Files]
          /\ pc' = [pc EXCEPT ![p] = "shift"]
          /\ nrot' = nrot + 1
          /\ UNCHANGED << mtx, lastErr >>
  /\ UNCHANGED << cfg, ctxDone, fsVars, size, arbVars, leaseVars, nfires,
                  fatal, fs0, written >>

\* One iteration of for k := h.cfg.Rotate - 1; k >= -1; k--
RotateShift(p) ==
  /\ ~fatal /\ pc[p] = "shift"
  /\ LET k == fire[p].k
     IN /\ exists' = ShiftFiles(Files, k, cfg.Rotate).exists
        /\ content' = ShiftFiles(Files, k, cfg.Rotate).content
        /\ fire' = [fire EXCEPT ![p].k = k - 1]
        /\ pc' = [pc EXCEPT ![p] = IF k = Live THEN "open" ELSE "shift"]
  /\ UNCHANGED << cfg, ctxDone, hookVars, arbVars, leaseVars, lastErr,
                  nfires, fatal, histVars >>

\* open(): the check of h.ctx.Done()
OpenCheck(p) ==
  /\ ~fatal /\ pc[p] = "open"
  /\ IF ctxDone
     THEN /\ Ret(p, "rotate_ctxdone")
          /\ mtx' = 0
     ELSE /\ pc' = [pc EXCEPT ![p] = "openfile"]
          /\ UNCHANGED << mtx, lastErr, fire >>
  /\ UNCHANGED << cfg, ctxDone, fsVars, fileOpen, size, arbVars, leaseVars,
                  nfires, fatal, histVars >>

\* open(): os.OpenFile, file.Stat, h.file = file, h.size = ...; rotate()
\* returns and its deferred Unlock runs
OpenFile(p) ==
  /\ ~fatal /\ pc[p] = "openfile"
  /\ exists' = OpenOrCreate(Files).exists
  /\ content' = OpenOrCreate(Files).content
  /\ fileOpen' = TRUE
  /\ size' = OpenSize(OpenOrCreate(Files))
  /\ mtx' = 0
  /\ pc' = [pc EXCEPT ![p] = "reset"]
  /\ UNCHANGED << cfg, ctxDone, arbVars, leaseVars, fireVars, fatal,
                  histVars >>

\* os.Rename fails (lines 472-475): rotate() returns the error, its deferred
\* Unlock runs; h.file stays the handle that Close() closed.
RenameFails(p) ==
  /\ ~fatal /\ pc[p] = "shift"
  /\ fire[p].k + 1 # cfg.Rotate /\ exists[fire[p].k]
  /\ Ret(p, "rotate_rename")
  /\ mtx' = 0
  /\ UNCHANGED << cfg, ctxDone, fsVars, fileOpen, size, arbVars, leaseVars,
                  nfires, fatal, histVars >>

\* open() fails: os.OpenFile returns an error (lines 385-387), or it has
\* created the file and file.Stat fails (lines 390-393, file.Close()); h.file
\* is not assigned, rotate() returns the error and its deferred Unlock runs.
OpenFails(p) ==
  /\ ~fatal /\ pc[p] = "openfile"
  /\ \E created \in BOOLEAN :
       /\ exists' = IF created THEN OpenOrCreate(Files).exists ELSE exists
       /\ content' = IF created THEN OpenOrCreate(Files).content ELSE content
  /\ Ret(p, "rotate_open")
  /\ mtx' = 0
  /\ UNCHANGED << cfg, ctxDone, fileOpen, size, arbVars, leaseVars,
                  nfires, fatal, histVars >>

\* h.size = 0 after rotate() returned nil
ResetTo(S) == 0

\* Fire, after rotate() returned nil: h.size = 0
ResetSize(p) ==
  /\ ~fatal /\ pc[p] = "reset"
  /\ size' = ResetTo(size)
  /\ fire' = [fire EXCEPT ![p].rotated = TRUE, ![p].h = HandleId,
                           ![p].pre = NoFiles]
  /\ pc' = [pc EXCEPT ![p] = "write"]
  /\ UNCHANGED << cfg, ctxDone, fsVars, fileOpen, mtx, arbVars, leaseVars,
                  lastErr, nfires, fatal, histVars >>

\* ---------------------------------------------------------------- write
\* file.Write appends n bytes to the live file (O_APPEND)
AppendBytes(c, n) == IF n = 0 THEN c ELSE [c EXCEPT ![Live] = Append(@, n)]

\* n, err := h.file.Write(bytes).  Fire reads h.file and h.size without
\* holding h.m: the pointer the call uses is the one h.file holds now or the
\* one it held when the previous statement ended, and the h.size that the
\* following += adds to is the one read here or the one read there.
Write(p) ==
  /\ ~fatal /\ pc[p] = "write"
  /\ \E hd \in {fire[p].h, HandleId} :
       IF ~(fileOpen /\ hd = HandleId)
       THEN \* write on a closed handle
            /\ Ret(p, "write")
            /\ UNCHANGED content
       ELSE /\ content' = AppendBytes(content, fire[p].len)
            /\ fire' = [fire EXCEPT ![p].n = fire[p].len, ![p].sz = size]
            /\ pc' = [pc EXCEPT ![p] = "addsize"]
            /\ UNCHANGED lastErr
  /\ UNCHANGED << cfg, ctxDone, exists, hookVars, arbVars, leaseVars,
                  nfires, fatal, histVars >>

\* Counting records instead of bytes.
AddSizeOne(S, n) == S + 1

\* h.size += uint64(n)
AddSize(S, n) == S + n

\* Fire: h.size += uint64(n); return nil
FireDone(p) ==
  /\ ~fatal /\ pc[p] = "addsize"
  /\ \E S \in {fire[p].sz, size} : size' = AddSize(S, fire[p].n)
  /\ written' = Append(written, fire[p].len)
  /\ Ret(p, "nil")
  /\ UNCHANGED << cfg, ctxDone, fsVars, fileOpen, mtx, arbVars, leaseVars,
                  nfires, fatal, fs0, nrot >>

\* ---------------------------------------------------------------- Next
\* The steps inside a call, whoever makes it, and the arbiter's.
Inner ==
  \/ \E p \in Procs : PausedCheck(p)
  \/ \E p \in Procs : Decide(p)
  \/ \E p \in Procs : RotateCheck(p)
  \/ \E p \in Procs : RotateLock(p)
  \/ \E p \in Procs : RotateClose(p)
  \/ \E p \in Procs : RotateShift(p)
  \/ \E p \in Procs : OpenCheck(p)
  \/ \E p \in Procs : OpenFile(p)
  \/ \E p \in Procs : ResetSize(p)
  \/ \E p \in Procs : Write(p)
  \/ \E p \in Procs : FireDone(p)
  \/ \E p \in Procs : ResumeDelete(p)
  \/ \E p \in Procs : ArbRecvPause(p)
  \/ \E p \in Procs : ArbRecvQuery(p)
  \/ ArbInsert
  \/ ArbAnswer
  \/ ArbExit
  \/ Cancel

\* Spec: one goroutine dispatches up to MaxFires records; every goroutine
\* may call Pause, up to MaxPauses times in all, and invoke a closure once.
\* Every file-system call succeeds.
Next ==
  \/ \E p \in Dispatchers : \E L \in Lens : \E ok \in BOOLEAN :
       nfires < MaxFires /\ FireCall(p, L, ok)
  \/ \E p \in Procs : npauses < MaxPauses /\ PauseCall(p)
  \/ \E p \in Procs : \E n \in LeaseIds :
       leaseCalls[n] = 0 /\ ResumeCall(p, n)
  \/ Inner

Spec == Init /\ [][Next]_vars

\* SpecNested: overlapping pauses.  Up to MaxNested Pause calls, each closure
\* invoked up to twice, NestedFires dispatches, under the size policy with
\* one retained generation.
NestedCfg == { c \in TypeCfg : ~c.Custom /\ c.Rotate = 1 /\ c.Size = MaxSize }

InitNested == InitFiles(NestedCfg, {{}})

NextNested ==
  \/ \E p \in Dispatchers : \E L \in Lens : \E ok \in BOOLEAN :
       nfires < NestedFires /\ FireCall(p, L, ok)
  \/ \E p \in Procs : npauses < MaxNested /\ PauseCall(p)
  \/ \E p \in Procs : \E n \in LeaseIds :
       leaseCalls[n] < 2 /\ ResumeCall(p, n)
  \/ MapRaceFatal
  \/ Inner

SpecNested == InitNested /\ [][NextNested]_vars

\* The steps inside Fire, with the arbiter's part in paused().
FireSteps ==
  \/ \E p \in Procs : PausedCheck(p)
  \/ \E p \in Procs : ArbRecvQuery(p)
  \/ ArbAnswer
  \/ \E p \in Procs : Decide(p)
  \/ \E p \in Procs : RotateCheck(p)
  \/ \E p \in Procs : RotateLock(p)
  \/ \E p \in Procs : RotateClose(p)
  \/ \E p \in Procs : RotateShift(p)
  \/ \E p \in Procs : OpenCheck(p)
  \/ \E p \in Procs : OpenFile(p)
  \/ \E p \in Procs : ResetSize(p)
  \/ \E p \in Procs : Write(p)
  \/ \E p \in Procs : FireDone(p)

\* SpecConc: every goroutine dispatches, ConcFires records in all, under the
\* size policy; no Pause call.  The context may be cancelled.
ConcCfg == { c \in TypeCfg : ~c.Custom /\ c.Rotate \in {1, 2} /\ c.Size \in {1, 2} }

InitConc == InitFiles(ConcCfg, {{}})

NextConc ==
  \/ \E p \in Procs : \E L \in Lens : \E ok \in BOOLEAN :
       nfires < ConcFires /\ FireCall(p, L, ok)
  \/ FireSteps
  \/ ArbExit
  \/ Cancel

SpecConc == InitConc /\ [][NextConc]_vars

\* SpecE2E: the scenario of TestHook_Rotate.  Retention E2ERotate, a threshold
\* T, an empty directory, no Pause and no cancellation; one goroutine
\* dispatches records of one length L < T until their sum exceeds 2T.
E2ECfg == [Rotate : {E2ERotate}, Size : 2 .. E2ESize, Custom : {FALSE}]

InitE2E == InitFiles(E2ECfg, {{}}) /\ content[Live] = << >>

\* bytes dispatched by the Fire calls that have returned
Dispatched == SumSeq(written)

NextE2E ==
  \/ \E p \in Dispatchers : \E L \in 1 .. (cfg.Size - 1) :
       /\ Dispatched <= 2 * cfg.Size
       /\ \A i \in DOMAIN written : written[i] = L
       /\ FireCall(p, L, TRUE)
  \/ FireSteps

SpecE2E == InitE2E /\ [][NextE2E]_vars

\* SpecSparse: the directory holds any subset of path.0 .. path.(Rotate-1)
\* when New() is called.  Retention 1..SparseRotate, the size policy with a
\* threshold of 1 or 2, one goroutine dispatching SparseFires records; no
\* Pause call, no cancellation.
SparseCfg == [Rotate : 1 .. SparseRotate, Size : {1, 2}, Custom : {FALSE}]

InitSparse ==
  /\ InitFiles(SparseCfg, SUBSET (0 .. (SparseRotate - 1)))
  /\ \A k \in Gens : exists[k] => k < cfg.Rotate

NextSparse ==
  \/ \E p \in Dispatchers : \E L \in Lens :
       nfires < SparseFires /\ FireCall(p, L, TRUE)
  \/ FireSteps

SpecSparse == InitSparse /\ [][NextSparse]_vars

\* SpecFault: a rename or the reopen of a rotation may fail.  One goroutine
\* dispatches FaultFires records under the size policy with a threshold of 1
\* or 2 and retention 0..MaxRotate; no Pause call, no cancellation.
FaultCfg == { c \in TypeCfg : ~c.Custom /\ c.Size \in {1, 2} }

InitFault == InitFiles(FaultCfg, {{}})

NextFault ==
  \/ \E p \in Dispatchers : \E L \in Lens :
       nfires < FaultFires /\ FireCall(p, L, TRUE)
  \/ FireSteps
  \/ \E p \in Procs : RenameFails(p)
  \/ \E p \in Procs : OpenFails(p)

SpecFault == InitFault /\ [][NextFault]_vars

\* ================================================================ claims
FirePcs == {"paused", "q_send", "q_recv", "decide", "rotate", "lock", "close",
            "shift", "open", "openfile", "reset", "write", "addsize"}

\* positions inside rotate() after its check of the context
RotPcs == {"lock", "close", "shift", "open", "openfile", "reset"}

\* positions after needRotate has returned a verdict
DecidedPcs == FirePcs \ {"paused", "q_send", "q_recv", "decide"}

NoFire == \A p \in Procs : pc[p] \notin FirePcs

GenFiles == { k \in Gens : exists[k] }

\* the payload a Fire has written and not yet counted
Pending ==
  IF \E p \in Procs : pc[p] = "addsize"
  THEN << fire[CHOOSE p \in Procs : pc[p] = "addsize"].len >>
  ELSE << >>

\* A step that closes the live handle, removes, renames or reopens.
RotationStep ==
  \E p \in Procs : \/ RotateClose(p) /\ fileOpen
                   \/ RotateShift(p)
                   \/ OpenFile(p)

\* A step that touches the file system.
IOStep == RotationStep \/ \E p \in Procs : Write(p) /\ fileOpen

\* ---------------------------------------------------------------- C1
\* One Pause() returned before the first Fire started, its closure was not
\* invoked, no other Pause call was made.
HeldFromStart == npauses = 1 /\ \E n \in early : leaseSt[n] = "held"

\* C1: with a lease acquired before the first dispatch and never resumed, no
\* Fire rotates, under either policy: no rotation has started, no generation
\* file exists that was not there at construction, and the live file holds
\* what it held at construction followed by every payload written so far.
C1_HeldLeaseNeverRotates ==
  HeldFromStart =>
    /\ nrot = 0
    /\ \A p \in Procs : pc[p] \notin RotPcs
    /\ \A k \in Gens : exists[k] = fs0.exists[k]
    /\ exists[Live]
    /\ content[Live] = fs0.content[Live] \o written \o Pending

\* The live file has outgrown the threshold under the held lease.
C1_Witness ==
  /\ HeldFromStart /\ ~cfg.Custom /\ cfg.Size > 0
  /\ Len(written) >= 2
  /\ FileLen(Live) > cfg.Size

\* ---------------------------------------------------------------- C2
\* A positive threshold or a custom predicate is configured (Size = 0 is the
\* case of C6).
SizeEnabled == cfg.Custom \/ cfg.Size > 0

\* C2: no step of a rotation (close, remove, rename, reopen) is taken in a
\* state where a lease is outstanding.  Stated for the configurations of
\* SizeEnabled, so that a violation does not rest on the case of C6.
C2_NoRotationStepWhileLeased ==
  [][(SizeEnabled /\ RotationStep) => Outstanding = {}]_vars

\* ---------------------------------------------------------------- C3
\* Two closures were returned by Pause(), one is still held and the other has
\* been invoked and has run to its end.
OneOfTwoReleased ==
  /\ \A p \in Procs : pc[p] # "deleting"
  /\ \E a, b \in LeaseIds :
       /\ a # b
       /\ leaseSt[a] = "held" /\ leaseTok[a] # NoTok
       /\ leaseSt[b] = "released" /\ leaseTok[b] # NoTok

\* C3: with two leases acquired and one of them released, the pause query
\* still answers "paused" (each release removes only its own token).
C3_NestedStillPaused ==
  [][(ArbAnswer /\ OneOfTwoReleased) => fire'[arbReq].paused]_vars

\* ---------------------------------------------------------------- C4
SomeReleased == \E n \in LeaseIds : leaseSt[n] = "released" /\ leaseTok[n] # NoTok

\* C4: a write made while the query answered "paused" is appended without a
\* rotation and is about to be counted in full; and once every lease has
\* been released, a Fire of the size policy whose tracked size S and payload
\* L satisfy S + L >= threshold reaches its write only through a rotation.
C4_RotatesAfterRelease ==
  \A p \in Procs :
    /\ (pc[p] = "addsize" /\ fire[p].paused) =>
         /\ ~fire[p].rotated
         /\ fire[p].n = fire[p].len
         /\ content[Live] # << >>
         /\ content[Live][Len(content[Live])] = fire[p].len
         /\ AddSize(size, fire[p].n) = FileLen(Live)
    /\ (/\ pc[p] \in {"write", "addsize"}
        /\ ~cfg.Custom /\ SomeReleased /\ fire[p].quiet
        /\ fire[p].S0 + fire[p].len >= cfg.Size) => fire[p].rotated

\* A Fire has rotated after the release of a lease under which the file had
\* outgrown the threshold.
C4_Witness ==
  /\ ~cfg.Custom /\ cfg.Size > 0 /\ cfg.Rotate >= 1 /\ SomeReleased
  /\ \E p \in Procs : pc[p] = "write" /\ fire[p].rotated /\ fire[p].quiet
  /\ nrot = 1 /\ exists[0] /\ FileLen(0) > cfg.Size /\ Len(content[0]) >= 2

C6_ZeroSizeNeverRotates ==
  (~cfg.Custom /\ cfg.Size = 0) => nrot = 0

\* ---------------------------------------------------------------- C7
FreshStart == \A k \in Gens : ~fs0.exists[k]

\* C7: starting without generation files, outside the shift loop the
\* generation files are path.0 .. path.(m-1) for some m <= Rotate, no more
\* than the rotations made; and while the hook holds an open handle (every
\* rotation so far ran to its end) the live path exists.
C7_GenerationBound ==
  FreshStart =>
    /\ (\A p \in Procs : pc[p] # "shift") =>
         \E m \in 0 .. cfg.Rotate : m <= nrot /\ GenFiles = 0 .. (m - 1)
    /\ fileOpen => exists[Live]

\* More rotations than generations kept: the oldest has been removed.
C7_Witness ==
  /\ FreshStart /\ NoFire /\ fileOpen
  /\ cfg.Rotate >= 1 /\ nrot > cfg.Rotate
  /\ GenFiles = 0 .. (cfg.Rotate - 1)

\* ---------------------------------------------------------------- C8
\* C8 as stated: whenever no Fire is in progress, the live file exists and
\* the tracked size is its length.  Stated for the configurations of
\* SizeEnabled, so that a violation does not rest on the case of C6.
C8_SizeIsFileLength ==
  (SizeEnabled /\ NoFire) => exists[Live] /\ size = FileLen(Live)

\* C8 amended: whenever no Fire is in progress and the hook holds an open
\* handle (no rotation was abandoned at its reopen because the lifetime
\* signal had fired), the live file exists and the tracked size is its
\* length; right after a rotation both are 0.
C8_SizeIsFileLengthWhileOpen ==
  /\ (NoFire /\ fileOpen) => exists[Live] /\ size = FileLen(Live)
  /\ \A p \in Procs : (pc[p] = "write" /\ fire[p].rotated)
                         => size = 0 /\ FileLen(Live) = 0

\* Between dispatches, after a rotation and a write, on a file that was not
\* empty at construction.
C8_Witness ==
  /\ NoFire /\ fileOpen /\ nrot >= 1 /\ size >= 2
  /\ fs0.content[Live] # << >>
  /\ written # << >>

\* ---------------------------------------------------------------- C9
\* C9: once the lifetime signal has fired, no Fire performs a file-system
\* operation (the first half of the claim; its second half, that every Fire
\* still running then returns "context is done", falls with it: a Fire that
\* writes returns nil).  Stated for the configurations of SizeEnabled.
C9_NoIOAfterCancel ==
  [][(SizeEnabled /\ ctxDone) => ~IOStep]_vars

\* ---------------------------------------------------------------- C10
\* C10: a call of Pause() or of the pause query can always still return:
\* none waits to send its request to an arbiter that has exited.
C10_NoCallStuck ==
  \A p \in Procs : pc[p] \in {"p_send", "q_send"} => arbPc # "exited"

\* ---------------------------------------------------------------- C11
\* The Fire that has just returned took the bytes dispatched from at most
\* n * T to more than n * T.
FirstExceeds(n) ==
  /\ NoFire /\ written # << >>
  /\ Dispatched > n * cfg.Size
  /\ Dispatched - written[Len(written)] <= n * cfg.Size

\* every record dispatched is shorter than a third of the threshold
ShortRecords == \A i \in DOMAIN written : 3 * written[i] < cfg.Size

\* C11 as stated: with equal records of any length L < T, when the bytes
\* dispatched first exceed T exactly the live file and path.0 exist, and when
\* they first exceed 2T exactly the live file, path.0 and path.1.
C11_OneRotationPerThreshold ==
  /\ FirstExceeds(1) => exists[Live] /\ GenFiles = {0}
  /\ FirstExceeds(2) => exists[Live] /\ GenFiles = {0, 1}

\* C11 amended: the same for equal records of length L with 3L < T.
C11_OneRotationPerThresholdShort ==
  ShortRecords =>
    /\ FirstExceeds(1) => exists[Live] /\ GenFiles = {0} /\ nrot = 1
    /\ FirstExceeds(2) => exists[Live] /\ GenFiles = {0, 1} /\ nrot = 2

\* The bytes dispatched have just exceeded 2T, in records of more than one
\* byte that do not divide T.
C11_Witness ==
  /\ ShortRecords /\ FirstExceeds(2)
  /\ written[1] > 1 /\ cfg.Size % written[1] # 0

\* ---------------------------------------------------------------- C12
\* Fire returns to its caller with the error of a panicked predicate, the
\* lifetime signal not having fired.
ReturnsPredicateFault(p) ==
  ~ctxDone /\ pc[p] = "decide" /\ pc'[p] = "idle" /\ lastErr'[p] = "predicate"

\* C12: a Fire whose custom predicate panicked does not rotate and has, when
\* it returns the error, appended its payload to the live file and advanced
\* the tracked size by it.
C12_PanicStillWrites ==
  [][\A p \in Procs :
       ReturnsPredicateFault(p) =>
         /\ nrot' = nrot
         /\ content'[Live] = Append(content[Live], fire[p].len)
         /\ size' = AddSize(size, fire[p].len)]_vars

\* ---------------------------------------------------------------- C13
\* C13: with Rotate = 0 no generation file is ever created (the directory
\* holds the live path only); the shift of a rotation leaves the live path
\* removed, its reopen leaves it existing, empty and tracked as 0 bytes, and
\* the write after it makes the payload all the live file holds.
C13_RetentionZeroKeepsNothing ==
  cfg.Rotate = 0 =>
    /\ \A k \in Gens : exists[k] = fs0.exists[k] /\ content[k] = fs0.content[k]
    /\ FreshStart => GenFiles = {}
    /\ \A p \in Procs :
         /\ pc[p] \in {"open", "openfile"} => ~exists[Live]
         /\ pc[p] = "reset" =>
              exists[Live] /\ content[Live] = << >> /\ size = 0
         /\ (pc[p] = "addsize" /\ fire[p].rotated) =>
              content[Live] = << fire[p].len >>
    /\ (NoFire /\ fileOpen) => exists[Live]

\* Two rotations with Rotate = 0 of a live file that was not empty at
\* construction, the last payload written after the second one.
C13_Witness ==
  /\ cfg.Rotate = 0 /\ FreshStart /\ NoFire /\ fileOpen
  /\ fs0.content[Live] # << >>
  /\ nrot >= 2 /\ Len(written) >= 2
  /\ content[Live] = << written[Len(written)] >>

\* ---------------------------------------------------------------- C14
\* C14: from the return of a Pause() call issued before cancellation until
\* its closure is invoked, its token is in the arbiter's map, and every query
\* the arbiter answers in that time answers "paused".
C14_LeaseLifetime ==
  [][/\ \A n \in Outstanding : leaseTok[n] \in locks
     /\ (ArbAnswer /\ Outstanding # {}) => fire'[arbReq].paused]_vars

\* ---------------------------------------------------------------- C15
\* C15: the map is touched by the arbiter only: no caller is about to run a
\* delete on it while the arbiter is between receiving an acquire or a query
\* and replying to it, and the runtime never aborts on concurrent map writes.
C15_SingleOwnerLeaseSet ==
  /\ ~fatal
  /\ \A p \in Procs : pc[p] = "deleting" => arbPc \notin {"insert", "answer"}

\* ---------------------------------------------------------------- C16
\* positions of rotate() from after h.m.Lock() to its return: before Close,
\* inside the shift loop, before and inside open()
CritPcs == {"close", "shift", "open", "openfile"}

InRotation == { p \in Procs : pc[p] \in CritPcs }

\* C16: with concurrent Fire callers at most one caller is inside the
\* close-shift-reopen sequence, and it is the one holding the mutex; a step
\* of that sequence is only ever taken by the caller that holds it.
C16_RotationMutualExclusion ==
  [][/\ Cardinality(InRotation) <= 1
     /\ \A p \in InRotation : mtx = p
     /\ \A p \in Procs :
          (RotateClose(p) \/ RotateShift(p) \/ OpenCheck(p) \/ OpenFile(p))
             => InRotation = {p}]_vars

\* One caller is inside the shift loop of the second rotation while another,
\* which also decided to rotate, waits for the mutex.
C16_Witness ==
  \E p, q \in Procs :
    /\ pc[p] = "shift" /\ pc[q] = "lock" /\ mtx = p
    /\ nrot = 2

\* ---------------------------------------------------------------- C17
\* some caller is between the Close of the old handle and the end of open()
HalfRotated == \E q \in Procs : pc[q] \in {"shift", "open", "openfile"}

\* C17: with concurrent Fire callers (the lifetime signal not fired), every
\* h.file.Write is issued when no caller is between Close and the end of the
\* reopen, on a handle that is open, and appends its payload.
C17_NoHalfRotatedWrite ==
  [][\A p \in Procs :
       (~ctxDone /\ Write(p)) =>
          /\ ~HalfRotated
          /\ fileOpen
          /\ pc'[p] = "addsize"]_vars

\* ---------------------------------------------------------------- C18
\* The next iteration of p's shift loop issues os.Rename(path.k, path.(k+1)).
RenameIssued(p) ==
  /\ pc[p] = "shift"
  /\ fire[p].k + 1 # cfg.Rotate
  /\ exists[fire[p].k]

\* some path among path.0 .. path.(Rotate-1) did not exist in directory f
Sparse(f) == \E j \in 0 .. (cfg.Rotate - 1) : ~f.exists[j]

\* C18: whenever the shift loop issues a rename, its target path does not
\* exist: whatever was there has been moved or removed by an earlier
\* iteration.  For every set of generations present before the rotation.
C18_RenameTargetAbsent ==
  \A p \in Procs : RenameIssued(p) => ~exists[fire[p].k + 1]

\* A rename of a generation onto a path that existed before the rotation, in
\* a directory where some other generation was missing.
C18_Witness ==
  \E p \in Procs :
    /\ RenameIssued(p) /\ fire[p].k >= 0
    /\ fire[p].pre.exists[fire[p].k + 1]
    /\ Sparse(fire[p].pre)

\* ---------------------------------------------------------------- C19
\* C19: the step with which rotate() returns nil, with Rotate >= 1, leaves
\* for every k in -1 .. Rotate-2 in path.(k+1) what path.k held before the
\* rotation if path.k existed, and path.(k+1) absent if it did not (so what
\* path.(Rotate-1) held is nowhere any more), and the live path existing and
\* empty.
C19_ShiftByOne ==
  [][\A p \in Procs :
       (OpenFile(p) /\ cfg.Rotate >= 1) =>
         /\ \A k \in Live .. (cfg.Rotate - 2) :
              /\ exists'[k + 1] = fire[p].pre.exists[k]
              /\ fire[p].pre.exists[k] => content'[k + 1] = fire[p].pre.content[k]
              /\ ~fire[p].pre.exists[k] => content'[k + 1] = << >>
         /\ exists'[Live] /\ content'[Live] = << >>]_vars

\* A rotation that dropped the oldest generation and moved the others, one
\* generation missing in between, the live file not empty.
C19_Witness ==
  \E p \in Procs :
    /\ pc[p] = "reset" /\ cfg.Rotate >= 3
    /\ fire[p].pre.exists[cfg.Rotate - 1]
    /\ fire[p].pre.exists[0]
    /\ Sparse(fire[p].pre)
    /\ fire[p].pre.content[Live] # << >>

\* ---------------------------------------------------------------- C20
\* p runs the body of a closure that is being invoked for the second time,
\* its first invocation having run to its end.
SecondDelete(p) ==
  /\ ResumeDelete(p)
  /\ leaseCalls[cur[p]] = 2
  /\ \A q \in Procs \ {p} : pc[q] # "deleting"

\* C20: the second invocation of a resume function leaves the lease set as
\* the first one left it; in particular the token of a closure returned by
\* another Pause() call and not invoked stays in it.
C20_ResumeIdempotent ==
  [][\A p \in Procs :
       SecondDelete(p) =>
         /\ locks' = locks
         /\ \A n \in Outstanding : leaseTok[n] \in locks
                                     => leaseTok[n] \in locks']_vars

\* ---------------------------------------------------------------- C21
\* C21: whenever no Fire is in progress and the lifetime signal has not
\* fired, the hook holds an open handle on the live path, which exists; also
\* after a Fire that returned the error of a failed rename or reopen.
C21_UsableHandleBetweenDispatches ==
  (NoFire /\ ~ctxDone) => fileOpen /\ exists[Live]

====
